---- MODULE Spec2Model ----
(***************************************************************************)
(* The inheritance assistant (app.py): the session state, the persisted    *)
(* collections, the tool dispatcher handle_tool_call, the conversation     *)
(* loop send_to_ai and the context assembler build_context.                *)
(*                                                                         *)
(* Strings the code builds with f-strings are built here with \o, lists    *)
(* are sequences (Python index i is TLA+ index i + 1), dicts are records.  *)
(* A JSON value the model may put in an integer parameter is a record      *)
(* [t, v]: t is its JSON type and v the integer it denotes, so that 5,     *)
(* 5.0 and "5" are three different values.                                 *)
(***************************************************************************)
EXTENDS Integers, Sequences, FiniteSets, TLC

\* ------------------------------------------------------------------ bounds
MaxReports == 2
MaxNotes == 2
MaxInterview == 2
MaxClock == 1

\* ------------------------------------------------------------ input values
SectionIds == {"a", "b"}
Titles == {"T1", "T2"}
Contents == {"C1", "C2"}
NoteTexts == {"n1", "n2"}
Topics == {"family", "legal"}
Questions == {"q1"}
Answers == {"x", "y"}

NULL == "None"
\* st.session_state.data when no snapshot was loaded (None).
NoData == [none |-> TRUE]

JInt(n) == [t |-> "int", v |-> n]
JFloat(n) == [t |-> "float", v |-> n]
JStr(n) == [t |-> "str", v |-> n]

\* Python: int and float take part in <=; a str against an int raises TypeError.
IsNumber(j) == j.t \in {"int", "float"}
\* Python: only an int is a list index; list.pop(1.0) and list[1.0] raise TypeError.
IsIndex(j) == j.t = "int"
\* Python: f"{idx}".
Fmt(j) == IF j.t = "float" THEN ToString(j.v) \o ".0" ELSE ToString(j.v)

Has(params, keys) == keys \subseteq DOMAIN params

\* ----------------------------------------------------------- str methods
\* A str is a sequence of one-character strings: s[i:j] is SubSeq(s, i + 1, j).
Digits == {"0", "1", "2", "3", "4", "5", "6", "7", "8", "9"}
Whitespace == {" ", "\t", "\n", "\r"}

\* s[i] as a one-character string (i counted from 1).
CharAt(s, i) == SubSeq(s, i, i)

\* sub in s
Contains(s, sub) ==
  \E i \in 1..(Len(s) - Len(sub) + 1) : SubSeq(s, i, i + Len(sub) - 1) = sub

\* s.startswith(p)
StartsWith(s, p) == Len(s) >= Len(p) /\ SubSeq(s, 1, Len(p)) = p

DigitValue(c) ==
  CASE c = "0" -> 0 [] c = "1" -> 1 [] c = "2" -> 2 [] c = "3" -> 3 [] c = "4" -> 4
    [] c = "5" -> 5 [] c = "6" -> 6 [] c = "7" -> 7 [] c = "8" -> 8 [] c = "9" -> 9

\* int(s) for a run of digits.
RECURSIVE ToInt(_)
ToInt(s) ==
  IF s = "" THEN 0
  ELSE 10 * ToInt(SubSeq(s, 1, Len(s) - 1)) + DigitValue(CharAt(s, Len(s)))

\* The length of the run of characters of `class` that s starts with.
RECURSIVE Run(_, _)
Run(s, class) ==
  IF s # "" /\ Head(s) \in class THEN 1 + Run(Tail(s), class) ELSE 0

VARIABLES
  reports,            \* st.session_state.reports
  notes,              \* st.session_state.notes
  interview,          \* st.session_state.interview
  messages,           \* st.session_state.messages, the chat history
  data,               \* st.session_state.data, the document snapshot or None
  store,              \* the app-data blobs in the remote store, by file name
  api_key,            \* whether ANTHROPIC_API_KEY is configured
  clock,              \* what datetime.now() reads
  call,               \* the arguments of the latest handle_tool_call
  result,             \* how the latest handle_tool_call ended: a return value or a raise
  pc,                 \* where send_to_ai stands
  context,            \* send_to_ai: context
  api_messages,       \* send_to_ai: api_messages
  response,           \* send_to_ai: response
  blk,                \* send_to_ai: the position of `block` in response.content
  assistant_content,  \* send_to_ai: assistant_content
  tool_results,       \* send_to_ai: tool_results
  reply,              \* how the latest send_to_ai ended: a return value or a raise
  files,              \* the document files in the remote store, in listing order
  dropbox_fingerprint, \* st.session_state.dropbox_fingerprint
  poll                \* where _poll_dropbox stands, and the documents it has scanned

collections == <<reports, notes, interview>>
session == <<reports, notes, interview, messages, data>>
locals == <<context, api_messages, response, blk, assistant_content, tool_results>>
turn == <<pc, context, api_messages, response, blk, assistant_content, tool_results, reply>>
scanner == <<files, dropbox_fingerprint, poll>>
vars == <<reports, notes, interview, messages, data, store, api_key, clock, call, result,
          pc, context, api_messages, response, blk, assistant_content, tool_results, reply,
          files, dropbox_fingerprint, poll>>

\* ------------------------------------------------------ handle_tool_call
Return(coll, saved, text) ==
  [coll |-> coll, saved |-> saved, result |-> [kind |-> "return", value |-> text]]
Raise(coll, exc) ==
  [coll |-> coll, saved |-> FALSE, result |-> [kind |-> "raise", value |-> exc]]

\* list.pop(i - 1): the list without its i-th element.
Pop(s, i) == SubSeq(s, 1, i - 1) \o SubSeq(s, i + 1, Len(s))

FirstMatch(rs, section_id) ==
  CHOOSE i \in 1..Len(rs) :
    /\ rs[i].id = section_id
    /\ \A j \in 1..(i - 1) : rs[j].id # section_id

\* update_report without the search for an existing section.
update_report_append(rs, params, now) ==
  IF ~Has(params, {"section_id", "title", "content"}) THEN Raise(rs, "KeyError")
  ELSE Return(Append(rs, [id |-> params.section_id,
                          title |-> params.title,
                          content |-> params.content,
                          created_at |-> now,
                          updated_at |-> now]),
              TRUE,
              "Created report section '" \o params.title \o "'")

\* update_report taking the section out and putting the updated one at the end.
update_report_moved_to_end(rs, params, now) ==
  IF ~Has(params, {"section_id", "title", "content"}) THEN Raise(rs, "KeyError")
  ELSE IF \E i \in 1..Len(rs) : rs[i].id = params.section_id
  THEN LET k == FirstMatch(rs, params.section_id) IN
       Return(Append(Pop(rs, k), [rs[k] EXCEPT !.title = params.title,
                                               !.content = params.content,
                                               !.updated_at = now]),
              TRUE,
              "Updated report section '" \o params.title \o "'")
  ELSE Return(Append(rs, [id |-> params.section_id,
                          title |-> params.title,
                          content |-> params.content,
                          created_at |-> now,
                          updated_at |-> now]),
              TRUE,
              "Created report section '" \o params.title \o "'")

update_report(rs, params, now) ==
  IF ~Has(params, {"section_id", "title", "content"}) THEN Raise(rs, "KeyError")
  ELSE IF \E i \in 1..Len(rs) : rs[i].id = params.section_id
  THEN LET k == FirstMatch(rs, params.section_id) IN
       Return([rs EXCEPT ![k].title = params.title,
                         ![k].content = params.content,
                         ![k].updated_at = now],
              TRUE,
              "Updated report section '" \o params.title \o "'")
  ELSE Return(Append(rs, [id |-> params.section_id,
                          title |-> params.title,
                          content |-> params.content,
                          created_at |-> now,
                          updated_at |-> now]),
              TRUE,
              "Created report section '" \o params.title \o "'")

\* delete_report_section with the comparison of the filter inverted.
delete_report_section_inverted(rs, params) ==
  IF ~Has(params, {"section_id"}) THEN Raise(rs, "KeyError")
  ELSE LET kept == SelectSeq(rs, LAMBDA s : s.id = params.section_id) IN
       IF Len(kept) < Len(rs)
       THEN Return(kept, TRUE, "Deleted report section '" \o params.section_id \o "'")
       ELSE Return(kept, FALSE, "Section '" \o params.section_id \o "' not found")

delete_report_section(rs, params) ==
  IF ~Has(params, {"section_id"}) THEN Raise(rs, "KeyError")
  ELSE LET kept == SelectSeq(rs, LAMBDA s : s.id # params.section_id) IN
       IF Len(kept) < Len(rs)
       THEN Return(kept, TRUE, "Deleted report section '" \o params.section_id \o "'")
       ELSE Return(kept, FALSE, "Section '" \o params.section_id \o "' not found")

add_note(ns, params, now) ==
  IF ~Has(params, {"note"}) THEN Raise(ns, "KeyError")
  ELSE Return(Append(ns, [note |-> params.note, added_at |-> now]),
              TRUE,
              "Saved note: '" \o params.note \o "'")

\* remove_note with `idx < len(...)` alone: Python's pop(-1) takes the last element.
remove_note_no_lower_bound(ns, params) ==
  IF ~Has(params, {"note_index"}) THEN Raise(ns, "KeyError")
  ELSE LET idx == params.note_index IN
       IF ~IsNumber(idx) THEN Raise(ns, "TypeError")
       ELSE IF idx.v < Len(ns)
       THEN IF ~IsIndex(idx) THEN Raise(ns, "TypeError")
            ELSE IF idx.v + Len(ns) < 0 THEN Raise(ns, "IndexError")
            ELSE LET k == IF idx.v < 0 THEN idx.v + Len(ns) + 1 ELSE idx.v + 1 IN
                 Return(Pop(ns, k), TRUE, "Removed note: '" \o ns[k].note \o "'")
       ELSE Return(ns, FALSE, "Invalid note index " \o Fmt(idx))

\* remove_note counting the index from the end of the list.
remove_note_from_end(ns, params) ==
  IF ~Has(params, {"note_index"}) THEN Raise(ns, "KeyError")
  ELSE LET idx == params.note_index IN
       IF ~IsNumber(idx) THEN Raise(ns, "TypeError")
       ELSE IF 0 <= idx.v /\ idx.v < Len(ns)
       THEN IF ~IsIndex(idx) THEN Raise(ns, "TypeError")
            ELSE Return(Pop(ns, Len(ns) - idx.v), TRUE,
                        "Removed note: '" \o ns[Len(ns) - idx.v].note \o "'")
       ELSE Return(ns, FALSE, "Invalid note index " \o Fmt(idx))

remove_note(ns, params) ==
  IF ~Has(params, {"note_index"}) THEN Raise(ns, "KeyError")
  ELSE LET idx == params.note_index IN
       IF ~IsNumber(idx) THEN Raise(ns, "TypeError")
       ELSE IF 0 <= idx.v /\ idx.v < Len(ns)
       THEN IF ~IsIndex(idx) THEN Raise(ns, "TypeError")
            ELSE Return(Pop(ns, idx.v + 1), TRUE,
                        "Removed note: '" \o ns[idx.v + 1].note \o "'")
       ELSE Return(ns, FALSE, "Invalid note index " \o Fmt(idx))

save_interview_entry(iv, params, now) ==
  IF ~Has(params, {"topic", "question", "answer"}) THEN Raise(iv, "KeyError")
  ELSE Return(Append(iv, [topic |-> params.topic,
                          question |-> params.question,
                          answer |-> params.answer,
                          answered_at |-> now]),
              TRUE,
              "Saved interview entry under '" \o params.topic \o "'")

update_interview_entry(iv, params, now) ==
  IF ~Has(params, {"entry_index"}) THEN Raise(iv, "KeyError")
  ELSE LET idx == params.entry_index IN
       IF ~IsNumber(idx) THEN Raise(iv, "TypeError")
       ELSE IF 0 <= idx.v /\ idx.v < Len(iv)
       THEN IF ~Has(params, {"answer"}) THEN Raise(iv, "KeyError")
            ELSE IF ~IsIndex(idx) THEN Raise(iv, "TypeError")
            ELSE Return([iv EXCEPT ![idx.v + 1].answer = params.answer,
                                   ![idx.v + 1].answered_at = now],
                        TRUE,
                        "Updated interview entry " \o Fmt(idx))
       ELSE Return(iv, FALSE, "Invalid entry index " \o Fmt(idx))

ReportTools == {"update_report", "delete_report_section"}
NoteTools == {"add_note", "remove_note"}
InterviewTools == {"save_interview_entry", "update_interview_entry"}

\* The file a tool's collection is saved to (save_reports, save_notes, save_interview).
FileOf(name) ==
  IF name \in ReportTools THEN "reports.json"
  ELSE IF name \in NoteTools THEN "notes.json"
  ELSE "interview.json"

\* The branch of handle_tool_call taken for `name`, on the collection it works on.
ToolBranch(name, params, rs, ns, iv, now) ==
  CASE name = "update_report" -> update_report(rs, params, now)
    [] name = "delete_report_section" -> delete_report_section(rs, params)
    [] name = "add_note" -> add_note(ns, params, now)
    [] name = "remove_note" -> remove_note(ns, params)
    [] name = "save_interview_entry" -> save_interview_entry(iv, params, now)
    [] name = "update_interview_entry" -> update_interview_entry(iv, params, now)
    [] OTHER -> Return(<<>>, FALSE, "Unknown tool")

\* get_dropbox_client(): a client, or None when the store is unavailable.
get_dropbox_client == BOOLEAN

\* save_app_data(dbx, filename, data): the blob is overwritten as a whole.
save_app_data(st, filename, blob) == [st EXCEPT ![filename] = blob]

\* _save(filename, key): nothing is written when there is no client.
Save(st, dbx, filename, blob) ==
  IF dbx THEN save_app_data(st, filename, blob) ELSE st

\* handle_tool_call with the note tools writing their list to the interview as well.
handle_tool_call_two_lists(name, params) ==
  LET r == ToolBranch(name, params, reports, notes, interview, clock) IN
  /\ reports' = IF name \in ReportTools THEN r.coll ELSE reports
  /\ notes' = IF name \in NoteTools THEN r.coll ELSE notes
  /\ interview' = IF name \in InterviewTools THEN r.coll
                  ELSE IF name \in NoteTools /\ r.saved THEN <<>>
                  ELSE interview
  /\ result' = r.result
  /\ call' = [name |-> name, input |-> params]
  /\ IF r.saved
     THEN \E dbx \in get_dropbox_client :
            store' = Save(store, dbx, FileOf(name), r.coll)
     ELSE store' = store

handle_tool_call(name, params) ==
  LET r == ToolBranch(name, params, reports, notes, interview, clock) IN
  /\ reports' = IF name \in ReportTools THEN r.coll ELSE reports
  /\ notes' = IF name \in NoteTools THEN r.coll ELSE notes
  /\ interview' = IF name \in InterviewTools THEN r.coll ELSE interview
  /\ result' = r.result
  /\ call' = [name |-> name, input |-> params]
  /\ IF r.saved
     THEN \E dbx \in get_dropbox_client :
            store' = Save(store, dbx, FileOf(name), r.coll)
     ELSE store' = store

\* datetime.now() moves on between two steps of the program.
Tick ==
  /\ clock < MaxClock
  /\ clock' = clock + 1
  /\ UNCHANGED <<session, store, api_key, call, result, turn, scanner>>

\* --------------------------------------------------------- build_context
TOPIC_LABELS ==
  [deceased |-> "Deceased", family |-> "Family", properties |-> "Properties",
   finances |-> "Finances", legal |-> "Legal", agreements |-> "Agreements",
   other |-> "Other"]

\* The fixed lines build_context starts `parts` with.
INSTRUCTIONS == <<
    "You are an advisor helping an Italian family with inheritance division.",
    "You have access to the following documents and extracted data.",
    "Answer in the same language the user writes in (Italian or English).",
    "When discussing legal matters, note that this is informational only, not legal advice.",
    "",
    "== YOUR TOOLS ==",
    "",
    "REPORTS: You can create/update/delete report sections on the Report panel using",
    "update_report and delete_report_section. Use these when asked to create reports,",
    "summaries, proposals, or any structured output.",
    "",
    "NOTES: When the user corrects information or provides new facts, ALWAYS use add_note",
    "to save it. Notes override document data and persist across sessions.",
    "",
    "INTERVIEW: When conducting an interview, save each answer using save_interview_entry.",
    "If the user corrects a previous interview answer, use update_interview_entry.",
    "Interview data is the DEFINITIVE source of truth - it takes highest priority",
    "over documents and notes when generating reports or answering questions.",
    "",
    "When conducting an interview, ask ONE question at a time. Cover these topics:",
    "- Deceased: name, date of death, place of residence, marital status at death",
    "- Family: complete family tree, spouse(s), all children and their families",
    "- Properties: all real estate, locations, estimated values, ownership details",
    "- Finances: bank accounts, investments, pensions, debts, mortgages",
    "- Legal: existing wills, donations, prior agreements, power of attorney",
    "- Agreements: any informal agreements between heirs, preferences, disputes",
    "Review what has already been answered before asking the next question.",
    "Ask follow-up questions when answers are incomplete or raise new topics.",
    "" >>

RECURSIVE Flatten(_)
Flatten(ss) == IF ss = <<>> THEN <<>> ELSE Head(ss) \o Flatten(Tail(ss))

Indices(s) == [i \in 1..Len(s) |-> i]

\* topics.setdefault(...): the topics in the order of their first entry.
TopicOrder(iv) ==
  LET first == SelectSeq(Indices(iv),
                         LAMBDA i : \A j \in 1..(i - 1) : iv[j].topic # iv[i].topic)
  IN [k \in 1..Len(first) |-> iv[first[k]].topic]

\* TopicGroup with each entry tagged by its position inside the group.
TopicGroup_position_in_group(iv, topic) ==
  LET mine == SelectSeq(Indices(iv), LAMBDA i : iv[i].topic = topic)
  IN <<"\n--- " \o TOPIC_LABELS[topic] \o " ---">>
     \o Flatten([k \in 1..Len(mine) |->
           << "  [" \o ToString(k - 1) \o "] Q: " \o iv[mine[k]].question,
              "      A: " \o iv[mine[k]].answer >>])

\* One topic group: its label line, then two lines per entry, tagged with the
\* entry's index in the whole list (enumerate counts from 0).
TopicGroup(iv, topic) ==
  LET mine == SelectSeq(Indices(iv), LAMBDA i : iv[i].topic = topic)
  IN <<"\n--- " \o TOPIC_LABELS[topic] \o " ---">>
     \o Flatten([k \in 1..Len(mine) |->
           << "  [" \o ToString(mine[k] - 1) \o "] Q: " \o iv[mine[k]].question,
              "      A: " \o iv[mine[k]].answer >>])

InterviewHeader == "== INTERVIEW DATA (definitive source of truth) =="
NotesHeader == "== CORRECTIONS & NOTES (override document data) =="
HeirsHeader == "== HEIRS (Eredi) - from documents =="
AssetsHeader == "== ASSETS (Immobili / Beni) - from documents =="
RawHeader == "== RAW DOCUMENT TEXT =="
ReportsHeader == "\n== CURRENT REPORT SECTIONS =="

InterviewPart(iv) ==
  IF iv = <<>> THEN <<>>
  ELSE <<InterviewHeader>>
       \o Flatten([k \in 1..Len(TopicOrder(iv)) |-> TopicGroup(iv, TopicOrder(iv)[k])])
       \o <<"">>

\* added_at[:10] is the date of the timestamp: the clock reading, as text.
NotesPart(ns) ==
  IF ns = <<>> THEN <<>>
  ELSE <<NotesHeader>>
       \o [i \in 1..Len(ns) |->
             "  " \o ToString(i - 1) \o ". " \o ns[i].note
                  \o " (added " \o ToString(ns[i].added_at) \o ")"]
       \o <<"">>

HeirLine(i, h) ==
  "  " \o ToString(i) \o ". " \o h.name
  \o (IF "date_of_birth" \in DOMAIN h THEN ", born " \o h.date_of_birth ELSE "")
  \o (IF "marital_status" \in DOMAIN h THEN ", " \o h.marital_status ELSE "")
  \o (IF "num_children" \in DOMAIN h
      THEN ", " \o ToString(h.num_children) \o " children" ELSE "")

HeirsPart(heirs) ==
  IF heirs = <<>> THEN <<>>
  ELSE <<HeirsHeader>> \o [i \in 1..Len(heirs) |-> HeirLine(i, heirs[i])] \o <<"">>

AssetsPart(assets) ==
  IF assets = <<>> THEN <<>>
  ELSE <<AssetsHeader>>
       \o [i \in 1..Len(assets) |-> "  " \o ToString(i) \o ". " \o assets[i].description]
       \o <<"">>

RawPart(documents) ==
  <<RawHeader>>
  \o Flatten([i \in 1..Len(documents) |->
        << "\n--- Document: " \o documents[i].path
             \o " (from folder: " \o documents[i].folder \o ") ---",
           documents[i].text >>])

ReportsPart(rs) ==
  IF rs = <<>> THEN <<>>
  ELSE <<ReportsHeader>>
       \o Flatten([i \in 1..Len(rs) |->
             << "\n--- Section: " \o rs[i].title \o " (id: " \o rs[i].id \o ") ---",
                rs[i].content >>])

\* build_context with the notes section put before the interview section.
build_context_notes_first(d, iv, ns, rs) ==
  INSTRUCTIONS \o NotesPart(ns) \o InterviewPart(iv)
  \o HeirsPart(d.heirs) \o AssetsPart(d.assets) \o RawPart(d.documents)
  \o ReportsPart(rs)

\* The list `parts`; the context is its lines joined by "\n".
build_context(d, iv, ns, rs) ==
  INSTRUCTIONS \o InterviewPart(iv) \o NotesPart(ns)
  \o HeirsPart(d.heirs) \o AssetsPart(d.assets) \o RawPart(d.documents)
  \o ReportsPart(rs)

\* ------------------------------------------------ scan.py: the fact parser
UpperCase == "ABCDEFGHIJKLMNOPQRSTUVWXYZ"
LowerCase == "abcdefghijklmnopqrstuvwxyz"
\* [A-Za-z...]: the letters of the texts of the model are the ASCII letters.
Letters == { CharAt(UpperCase, i) : i \in 1..26 } \cup { CharAt(LowerCase, i) : i \in 1..26 }
LowerOf == [c \in { CharAt(UpperCase, i) : i \in 1..26 } |->
              CharAt(LowerCase, CHOOSE i \in 1..26 : CharAt(UpperCase, i) = c)]

\* str.lower()
RECURSIVE Lower(_)
Lower(s) ==
  IF s = "" THEN ""
  ELSE (IF Head(s) \in DOMAIN LowerOf THEN LowerOf[Head(s)] ELSE Head(s)) \o Lower(Tail(s))

\* str.lstrip / str.rstrip(chars) / str.strip()
LStrip(s, class) == SubSeq(s, Run(s, class) + 1, Len(s))
RECURSIVE RStrip(_, _)
RStrip(s, class) ==
  IF s # "" /\ CharAt(s, Len(s)) \in class
  THEN RStrip(SubSeq(s, 1, Len(s) - 1), class) ELSE s
Strip(s) == RStrip(LStrip(s, Whitespace), Whitespace)

\* text.split('\n')
RECURSIVE Split(_)
Split(text) ==
  LET k == Run(text, {CharAt(text, i) : i \in 1..Len(text)} \ {"\n"}) IN
  IF k = Len(text) THEN <<text>>
  ELSE <<SubSeq(text, 1, k)>> \o Split(SubSeq(text, k + 2, Len(text)))

\* re.search: the first of the positions where the pattern matches, 0 when there is none.
FirstPos(positions) ==
  IF positions = {} THEN 0
  ELSE CHOOSE i \in positions : \A j \in positions : i <= j

\* \(\d{2}/\d{2}/\d{4}\) at position i of s.
DateAt(s, i) ==
  /\ i + 11 <= Len(s)
  /\ CharAt(s, i) = "(" /\ CharAt(s, i + 11) = ")"
  /\ CharAt(s, i + 3) = "/" /\ CharAt(s, i + 6) = "/"
  /\ \A k \in {1, 2, 4, 5, 7, 8, 9, 10} : CharAt(s, i + k) \in Digits

\* (\d+)\s+figli at position i of s.
ChildrenAt(s, i) ==
  LET rest == SubSeq(s, i, Len(s))
      d == Run(rest, Digits)
      after == SubSeq(rest, d + 1, Len(rest))
      w == Run(after, Whitespace)
  IN d >= 1 /\ w >= 1 /\ StartsWith(SubSeq(after, w + 1, Len(after)), "figli")

\* What parse_heir_line returns for a line it finds no name in (None).
NoHeir == [none |-> TRUE]

\* parse_heir_line with only the normalized marital status set.
parse_heir_line_status_only(line0) ==
  LET d == Run(line0, Digits)
      sep == Run(SubSeq(line0, d + 1, Len(line0)), {".", ")"} \cup Whitespace)
      line == Strip(IF d >= 1 /\ sep >= 1
                    THEN SubSeq(line0, d + sep + 1, Len(line0)) ELSE line0)
      low == Lower(line)
      n == Run(line, Letters)
      dob == FirstPos({i \in 1..Len(line) : DateAt(line, i)})
      ch == FirstPos({i \in 1..Len(line) : ChildrenAt(line, i)})
      heir ==
        (IF n >= 1 THEN [name |-> SubSeq(line, 1, n)] ELSE <<>>)
        @@ (IF dob > 0 THEN [date_of_birth |-> SubSeq(line, dob + 1, dob + 10)] ELSE <<>>)
        @@ (IF Contains(low, "coniugat") THEN [marital_status |-> "married"]
            ELSE IF Contains(low, "stato libero") \/ Contains(low, "libero")
            THEN [marital_status |-> "unmarried"]
            ELSE IF Contains(low, "vedov") THEN [marital_status |-> "widowed"]
            ELSE <<>>)
        @@ (IF ch > 0
            THEN [num_children |->
                    ToInt(SubSeq(line, ch, ch + Run(SubSeq(line, ch, Len(line)), Digits) - 1))]
            ELSE <<>>)
        @@ [raw_text |-> Strip(RStrip(line, {";"}))]
  IN IF line = "" THEN NoHeir
     ELSE IF "name" \in DOMAIN heir THEN heir ELSE NoHeir

\* parse_heir_line returning the dict whether or not it has a name.
parse_heir_line_keeps_nameless(line0) ==
  LET d == Run(line0, Digits)
      sep == Run(SubSeq(line0, d + 1, Len(line0)), {".", ")"} \cup Whitespace)
      line == Strip(IF d >= 1 /\ sep >= 1
                    THEN SubSeq(line0, d + sep + 1, Len(line0)) ELSE line0)
      low == Lower(line)
      n == Run(line, Letters)
      dob == FirstPos({i \in 1..Len(line) : DateAt(line, i)})
      ch == FirstPos({i \in 1..Len(line) : ChildrenAt(line, i)})
      heir ==
        (IF n >= 1 THEN [name |-> SubSeq(line, 1, n)] ELSE <<>>)
        @@ (IF dob > 0 THEN [date_of_birth |-> SubSeq(line, dob + 1, dob + 10)] ELSE <<>>)
        @@ (IF Contains(low, "coniugat")
            THEN [marital_status |-> "married", marital_status_it |-> "coniugato/a"]
            ELSE IF Contains(low, "stato libero") \/ Contains(low, "libero")
            THEN [marital_status |-> "unmarried", marital_status_it |-> "stato libero"]
            ELSE IF Contains(low, "vedov")
            THEN [marital_status |-> "widowed", marital_status_it |-> "vedovo/a"]
            ELSE <<>>)
        @@ (IF ch > 0
            THEN [num_children |->
                    ToInt(SubSeq(line, ch, ch + Run(SubSeq(line, ch, Len(line)), Digits) - 1))]
            ELSE <<>>)
        @@ [raw_text |-> Strip(RStrip(line, {";"}))]
  IN IF line = "" THEN NoHeir ELSE heir

\* parse_heir_line(line): the heir dict, or None.
parse_heir_line(line0) ==
  LET d == Run(line0, Digits)
      sep == Run(SubSeq(line0, d + 1, Len(line0)), {".", ")"} \cup Whitespace)
      line == Strip(IF d >= 1 /\ sep >= 1
                    THEN SubSeq(line0, d + sep + 1, Len(line0)) ELSE line0)
      low == Lower(line)
      n == Run(line, Letters)
      dob == FirstPos({i \in 1..Len(line) : DateAt(line, i)})
      ch == FirstPos({i \in 1..Len(line) : ChildrenAt(line, i)})
      heir ==
        (IF n >= 1 THEN [name |-> SubSeq(line, 1, n)] ELSE <<>>)
        @@ (IF dob > 0 THEN [date_of_birth |-> SubSeq(line, dob + 1, dob + 10)] ELSE <<>>)
        @@ (IF Contains(low, "coniugat")
            THEN [marital_status |-> "married", marital_status_it |-> "coniugato/a"]
            ELSE IF Contains(low, "stato libero") \/ Contains(low, "libero")
            THEN [marital_status |-> "unmarried", marital_status_it |-> "stato libero"]
            ELSE IF Contains(low, "vedov")
            THEN [marital_status |-> "widowed", marital_status_it |-> "vedovo/a"]
            ELSE <<>>)
        @@ (IF ch > 0
            THEN [num_children |->
                    ToInt(SubSeq(line, ch, ch + Run(SubSeq(line, ch, Len(line)), Digits) - 1))]
            ELSE <<>>)
        @@ [raw_text |-> Strip(RStrip(line, {";"}))]
  IN IF line = "" THEN NoHeir
     ELSE IF "name" \in DOMAIN heir THEN heir ELSE NoHeir

\* The body of `for line in lines` of parse_heirs: the flag and the heirs after `line`.
HeirLineStep(st, line0, path) ==
  LET line == Strip(line0)
      low == Lower(line)
  IN IF Contains(low, "eredi") \/ Contains(low, "heirs")
     THEN [in_heirs |-> TRUE, heirs |-> st.heirs]
     ELSE IF st.in_heirs /\ line # "" /\ Head(line) \in Digits
     THEN LET heir == parse_heir_line(line) IN
          [in_heirs |-> TRUE,
           heirs |-> IF heir = NoHeir THEN st.heirs
                     ELSE Append(st.heirs, heir @@ [source_file |-> path])]
     ELSE IF st.in_heirs /\ (Contains(low, "immobili") \/ Contains(low, "beni") \/ line = "")
     THEN [in_heirs |-> ~(line # "" /\ Contains(low, "immobili")), heirs |-> st.heirs]
     ELSE st

\* The lines of one document, from the flag in_heirs and no heirs.
RECURSIVE HeirScan(_, _, _)
HeirScan(lines, in_heirs, path) ==
  IF lines = <<>> THEN [in_heirs |-> in_heirs, heirs |-> <<>>]
  ELSE LET before == HeirScan(SubSeq(lines, 1, Len(lines) - 1), in_heirs, path)
       IN HeirLineStep(before, lines[Len(lines)], path)

\* parse_heirs with in_heirs set to False once, before the loop over the documents.
parse_heirs_one_flag(documents) ==
  LET Scan[k \in 0..Len(documents)] ==
        IF k = 0 THEN [in_heirs |-> FALSE, heirs |-> <<>>]
        ELSE LET s == HeirScan(Split(documents[k].text), Scan[k - 1].in_heirs,
                               documents[k].path)
             IN [in_heirs |-> s.in_heirs, heirs |-> Scan[k - 1].heirs \o s.heirs]
  IN Scan[Len(documents)].heirs

parse_heirs(documents) ==
  Flatten([k \in 1..Len(documents) |->
             HeirScan(Split(documents[k].text), FALSE, documents[k].path).heirs])

ASSET_KEYWORDS == {"immobili", "beni", "properties", "assets"}

\* parse_assets leaving the section on an empty line.
AssetLineStep_until_empty_line(st, line0, path) ==
  LET line == Strip(line0)
      low == Lower(line)
  IN IF \E kw \in ASSET_KEYWORDS : Contains(low, kw)
     THEN [in_assets |-> TRUE, assets |-> st.assets]
     ELSE IF st.in_assets /\ line # ""
     THEN [in_assets |-> TRUE,
           assets |-> Append(st.assets,
                             [description |-> Strip(RStrip(line, {";"})),
                              source_file |-> path,
                              raw_text |-> line])]
     ELSE [in_assets |-> FALSE, assets |-> st.assets]

\* The body of `for line in lines` of parse_assets.
AssetLineStep(st, line0, path) ==
  LET line == Strip(line0)
      low == Lower(line)
  IN IF \E kw \in ASSET_KEYWORDS : Contains(low, kw)
     THEN [in_assets |-> TRUE, assets |-> st.assets]
     ELSE IF st.in_assets /\ line # ""
     THEN [in_assets |-> TRUE,
           assets |-> Append(st.assets,
                             [description |-> Strip(RStrip(line, {";"})),
                              source_file |-> path,
                              raw_text |-> line])]
     ELSE st

RECURSIVE AssetScan(_, _, _)
AssetScan(lines, in_assets, path) ==
  IF lines = <<>> THEN [in_assets |-> in_assets, assets |-> <<>>]
  ELSE LET before == AssetScan(SubSeq(lines, 1, Len(lines) - 1), in_assets, path)
       IN AssetLineStep(before, lines[Len(lines)], path)

parse_assets(documents) ==
  Flatten([k \in 1..Len(documents) |->
             AssetScan(Split(documents[k].text), FALSE, documents[k].path).assets])

\* ------------------------------------------------------------ send_to_ai
MaxMessages == 4
MaxRounds == 1

UserMessages == {"u"}
DEFAULT_REPLY == "Done - check the Report panel."

TextBlock(s) == [type |-> "text", text |-> s]
ToolUse(id, name, input) == [type |-> "tool_use", id |-> id, name |-> name, input |-> input]

Returned(v) == [kind |-> "return", value |-> v]
Raised(exc) == [kind |-> "raise", value |-> exc]
NotRun == [kind |-> "none", value |-> NULL]
NoCall == [name |-> NULL, input |-> <<>>]
NoResponse == [stop_reason |-> NULL, content |-> <<>>]

\* What the model may answer: the stop reason and the content blocks.
Responses ==
  { [stop_reason |-> "tool_use", content |->
       << TextBlock("Working."),
          ToolUse("toolu_1", "update_report",
                  [section_id |-> "a", title |-> "T1", content |-> "C1"]) >>],
    [stop_reason |-> "tool_use", content |->
       << ToolUse("toolu_1", "add_note", [note |-> "n1"]) >>],
    [stop_reason |-> "tool_use", content |->
       << ToolUse("toolu_1", "remove_note", [note_index |-> JInt(0)]),
          TextBlock("Next."),
          ToolUse("toolu_2", "search", [query |-> "x"]) >>],
    [stop_reason |-> "tool_use", content |->
       << ToolUse("toolu_1", "remove_note", <<>>),
          ToolUse("toolu_2", "add_note", [note |-> "n1"]) >>],
    [stop_reason |-> "max_tokens", content |->
       << TextBlock("Partial."),
          ToolUse("toolu_1", "delete_report_section", [section_id |-> "a"]) >>],
    [stop_reason |-> "end_turn", content |-> << TextBlock("A"), TextBlock("B") >>],
    [stop_reason |-> "end_turn", content |-> << >>] }

IsToolUse(b) == b.type = "tool_use"
ToolUses(content) == SelectSeq(content, IsToolUse)
Count(content, name) == Len(SelectSeq(content, LAMBDA b : IsToolUse(b) /\ b.name = name))

\* The collections stay within the bounds of the model whatever the response asks for.
Fits(r) ==
  /\ Len(notes) + Count(r.content, "add_note") <= MaxNotes
  /\ Len(interview) + Count(r.content, "save_interview_entry") <= MaxInterview
  /\ Len(reports) + Count(r.content, "update_report") <= MaxReports

ResetLocals ==
  /\ context' = <<>>
  /\ api_messages' = <<>>
  /\ response' = NoResponse
  /\ blk' = 0
  /\ assistant_content' = <<>>
  /\ tool_results' = <<>>

\* An exception leaves send_to_ai: nothing of the rest of the function runs.
Abort(exc) ==
  /\ pc' = "idle"
  /\ reply' = Raised(exc)
  /\ ResetLocals

\* send_to_ai up to and including the first client.messages.create(...) request.
SendToAi(user_message) ==
  /\ pc = "idle"
  /\ Len(messages) + 2 <= MaxMessages
  /\ call' = NoCall
  /\ result' = NotRun
  /\ UNCHANGED <<reports, notes, interview, data, store, api_key, clock, scanner>>
  /\ IF ~api_key
     THEN /\ reply' = Returned(NULL)
          /\ UNCHANGED <<messages, pc, locals>>
     ELSE /\ messages' = Append(messages, [role |-> "user", content |-> user_message])
          /\ IF data = NoData
             THEN Abort("TypeError")
             ELSE /\ context' = build_context(data, interview, notes, reports)
                  /\ api_messages' = messages'
                  /\ pc' = "create"
                  /\ reply' = NotRun
                  /\ UNCHANGED <<response, blk, assistant_content, tool_results>>

\* client.messages.create(...) returns a response; the while test follows.
ModelResponds(r) ==
  /\ pc = "create"
  /\ Fits(r)
  /\ response' = r
  /\ IF r.stop_reason = "tool_use"
     THEN /\ pc' = "tool_use"
          /\ blk' = 1
          /\ assistant_content' = <<>>
          /\ tool_results' = <<>>
     ELSE /\ pc' = "reply"
          /\ UNCHANGED <<blk, assistant_content, tool_results>>
  /\ UNCHANGED <<session, store, api_key, clock, call, result, context, api_messages, reply,
                 scanner>>

\* client.messages.create(...) raises (the request fails).
ModelFails ==
  /\ pc = "create"
  /\ Abort("APIError")
  /\ UNCHANGED <<session, store, api_key, clock, call, result, scanner>>

\* One iteration of `for block in response.content`.
ToolUseBlock ==
  /\ pc = "tool_use"
  /\ blk <= Len(response.content)
  /\ LET block == response.content[blk] IN
     IF block.type = "text"
     THEN /\ assistant_content' = Append(assistant_content, TextBlock(block.text))
          /\ blk' = blk + 1
          /\ UNCHANGED <<reports, notes, interview, store, call, result,
                         pc, context, api_messages, response, tool_results, reply>>
     ELSE /\ handle_tool_call(block.name, block.input)
          /\ IF result'.kind = "raise"
             THEN Abort(result'.value)
             ELSE /\ assistant_content' = Append(assistant_content, block)
                  /\ tool_results' = Append(tool_results,
                        [type |-> "tool_result", tool_use_id |-> block.id,
                         content |-> result'.value])
                  /\ blk' = blk + 1
                  /\ UNCHANGED <<pc, context, api_messages, response, reply>>
  /\ UNCHANGED <<messages, data, api_key, clock, scanner>>

\* The model keeps the latest MaxRounds rounds of api_messages after the chat history.
KeepRounds(msgs, hist) ==
  IF Len(msgs) > hist + 2 * MaxRounds
  THEN SubSeq(msgs, 1, hist) \o SubSeq(msgs, hist + 3, Len(msgs))
  ELSE msgs

\* EndRound with the two messages of the round appended to the chat history too.
EndRound_into_history ==
  /\ pc = "tool_use"
  /\ blk > Len(response.content)
  /\ api_messages' =
       KeepRounds(api_messages
                    \o << [role |-> "assistant", content |-> assistant_content],
                          [role |-> "user", content |-> tool_results] >>,
                  Len(messages))
  /\ messages' = messages \o << [role |-> "assistant", content |-> assistant_content],
                                [role |-> "user", content |-> tool_results] >>
  /\ pc' = "create"
  /\ UNCHANGED <<reports, notes, interview, data, store, api_key, clock, call, result,
                 context, response, blk, assistant_content, tool_results, reply, scanner>>

\* The end of the for loop: the two appends and the next client.messages.create(...).
EndRound ==
  /\ pc = "tool_use"
  /\ blk > Len(response.content)
  /\ api_messages' =
       KeepRounds(api_messages
                    \o << [role |-> "assistant", content |-> assistant_content],
                          [role |-> "user", content |-> tool_results] >>,
                  Len(messages))
  /\ pc' = "create"
  /\ UNCHANGED <<session, store, api_key, clock, call, result,
                 context, response, blk, assistant_content, tool_results, reply, scanner>>

RECURSIVE ReplyText(_)
ReplyText(content) ==
  IF content = <<>> THEN ""
  ELSE (IF Head(content).type = "text" THEN Head(content).text ELSE "")
       \o ReplyText(Tail(content))

\* `reply or "Done ..."`.
FinalText(content) == IF ReplyText(content) = "" THEN DEFAULT_REPLY ELSE ReplyText(content)

\* After the loop: the reply, the append to the chat history, save_chat_history().
FinalReply ==
  /\ pc = "reply"
  /\ messages' = Append(messages, [role |-> "assistant", content |-> FinalText(response.content)])
  /\ \E dbx \in get_dropbox_client :
       store' = Save(store, dbx, "chat_history.json", messages')
  /\ reply' = Returned(FinalText(response.content))
  /\ pc' = "idle"
  /\ ResetLocals
  /\ UNCHANGED <<reports, notes, interview, data, api_key, clock, call, result, scanner>>

\* ------------------------------------------------------------------- Init
Doc1 ==
  [path |-> "will.txt", folder |-> "root", filename |-> "will.txt",
   text |-> "Eredi:\n1. Maria (12/03/1975), coniugata, 2 figli;\nImmobili:\nApartment in Rome"]

\* A file of the store: the document a scan makes of it, its size and content hash.
File1 == [doc |-> Doc1, size |-> Len(Doc1.text), content_hash |-> "h1"]

\* The fingerprint of a listing: path, size and content hash of every file, in
\* the listing's (sorted) order.
RECURSIVE Fingerprint(_)
Fingerprint(fs) ==
  IF fs = <<>> THEN "fp"
  ELSE Fingerprint(SubSeq(fs, 1, Len(fs) - 1))
       \o "|" \o fs[Len(fs)].doc.path \o ":" \o ToString(fs[Len(fs)].size)
       \o ":" \o fs[Len(fs)].content_hash

\* get_dropbox_fingerprint(dbx): the fingerprint, or None when the listing fails.
get_dropbox_fingerprint(fs) == {Fingerprint(fs), NULL}

\* The documents of the files whose text is not empty or blank.
Documents(fs) ==
  LET kept == SelectSeq(fs, LAMBDA f : Strip(f.doc.text) # "")
  IN [i \in 1..Len(kept) |-> kept[i].doc]

\* scan_dropbox(dbx): the documents, or none when the listing fails.
scan_dropbox(fs) == {Documents(fs), <<>>}

\* The dict load_documents returns for the documents of a scan.
Snapshot(documents, now) ==
  [scan_date |-> now,
   documents |-> documents,
   heirs |-> parse_heirs(documents),
   assets |-> parse_assets(documents)]

\* _poll_dropbox is not running; fresh: no file has changed since the latest
\* load_documents returned a snapshot.
PollIdle(fresh) == [pc |-> "idle", documents |-> <<>>, fresh |-> fresh]

\* What load_documents returns: None, or the snapshot of a scan.
Snapshots ==
  { [scan_date |-> 0, documents |-> <<Doc1>>,
     heirs |-> << [name |-> "Maria", date_of_birth |-> "12/03/1975",
                   marital_status |-> "married", marital_status_it |-> "coniugato/a",
                   num_children |-> 2,
                   raw_text |-> "Maria (12/03/1975), coniugata, 2 figli",
                   source_file |-> "will.txt"] >>,
     assets |-> << [description |-> "Apartment in Rome", source_file |-> "will.txt",
                    raw_text |-> "Apartment in Rome"] >>] }

\* The blobs an earlier session left in the store.
StoredSessions ==
  { [reports |-> <<>>, notes |-> <<>>, interview |-> <<>>, messages |-> <<>>],
    [reports |-> << [id |-> "b", title |-> "T2", content |-> "C2",
                     created_at |-> 0, updated_at |-> 0] >>,
     notes |-> << [note |-> "n2", added_at |-> 0] >>,
     interview |-> << [topic |-> "family", question |-> "q1", answer |-> "x",
                       answered_at |-> 0] >>,
     messages |-> <<>>] }

Blobs(s) ==
  [f \in {"chat_history.json", "reports.json", "notes.json", "interview.json"} |->
     CASE f = "chat_history.json" -> s.messages
       [] f = "reports.json" -> s.reports
       [] f = "notes.json" -> s.notes
       [] OTHER -> s.interview]

\* The state when the first script run has loaded the session (lines 36-107).
InitWith(s) ==
  /\ reports = s.reports
  /\ notes = s.notes
  /\ interview = s.interview
  /\ messages = s.messages
  /\ store = Blobs(s)
  /\ clock = 0
  /\ call = NoCall
  /\ result = NotRun
  /\ pc = "idle"
  /\ context = <<>>
  /\ api_messages = <<>>
  /\ response = NoResponse
  /\ blk = 0
  /\ assistant_content = <<>>
  /\ tool_results = <<>>
  /\ reply = NotRun

Init ==
  /\ \E s \in StoredSessions : InitWith(s)
  /\ data \in Snapshots \cup {NoData}
  /\ api_key \in BOOLEAN
  /\ files = <<File1>>
  /\ dropbox_fingerprint = IF data = NoData THEN NULL ELSE Fingerprint(files)
  /\ poll = PollIdle(data # NoData)

Next ==
  \/ \E u \in UserMessages : SendToAi(u)
  \/ \E r \in Responses : ModelResponds(r)
  \/ ModelFails
  \/ ToolUseBlock
  \/ EndRound
  \/ FinalReply

Spec == Init /\ [][Next]_vars

\* send_to_ai runs on once it is called, and every request is answered or fails.
TurnStep ==
  \/ \E r \in Responses : ModelResponds(r)
  \/ ModelFails
  \/ ToolUseBlock
  \/ EndRound
  \/ FinalReply

FairSpec == Spec /\ WF_vars(TurnStep)

\* ------------------------------------------------------- _poll_dropbox
\* The first half of _poll_dropbox: the client, the fingerprint and the comparison
\* with the last one observed. load_documents follows when they differ.
_poll_dropbox ==
  /\ poll.pc = "idle"
  /\ \E dbx \in get_dropbox_client, fingerprint \in get_dropbox_fingerprint(files) :
       IF dbx /\ fingerprint # NULL /\ fingerprint # dropbox_fingerprint
       THEN poll' = [poll EXCEPT !.pc = "load"]
       ELSE poll' = poll
  /\ UNCHANGED <<session, store, api_key, clock, call, result, turn,
                 files, dropbox_fingerprint>>

\* load_documents, called by _poll_dropbox, up to the return of scan_dropbox; with
\* no client it returns None, which _poll_dropbox assigns to the snapshot.
load_documents_scan ==
  /\ poll.pc = "load"
  /\ \E dbx \in get_dropbox_client :
       IF ~dbx
       THEN /\ data' = NoData
            /\ poll' = PollIdle(FALSE)
       ELSE /\ \E documents \in scan_dropbox(files) :
                 poll' = [poll EXCEPT !.pc = "scanned", !.documents = documents]
            /\ data' = data
  /\ UNCHANGED <<reports, notes, interview, messages, store, api_key, clock, call, result,
                 turn, files, dropbox_fingerprint>>

\* load_documents_return with the new documents put into the snapshot in place.
load_documents_in_place ==
  /\ poll.pc = "scanned"
  /\ \E fingerprint \in get_dropbox_fingerprint(files) :
       dropbox_fingerprint' = fingerprint
  /\ data' = IF data = NoData THEN Snapshot(poll.documents, clock)
             ELSE [data EXCEPT !.documents = poll.documents]
  /\ poll' = PollIdle(TRUE)
  /\ UNCHANGED <<reports, notes, interview, messages, store, api_key, clock, call, result,
                 turn, files>>

\* The rest of load_documents (the fingerprint is recorded, the dict is built)
\* and the assignment of what it returns to st.session_state.data.
load_documents_return ==
  /\ poll.pc = "scanned"
  /\ \E fingerprint \in get_dropbox_fingerprint(files) :
       dropbox_fingerprint' = fingerprint
  /\ data' = Snapshot(poll.documents, clock)
  /\ poll' = PollIdle(TRUE)
  /\ UNCHANGED <<reports, notes, interview, messages, store, api_key, clock, call, result,
                 turn, files>>

Doc1b ==
  [path |-> "will.txt", folder |-> "root", filename |-> "will.txt",
   text |-> "Eredi:\n1. Maria (12/03/1975), coniugata, 2 figli;\n2. Luca (12/03/1975), stato libero"]
Doc2 ==
  [path |-> "deeds/deed.txt", folder |-> "deeds", filename |-> "deed.txt",
   text |-> "Immobili:\nHouse in Milan;"]
File1b == [doc |-> Doc1b, size |-> Len(Doc1b.text), content_hash |-> "h2"]
File2 == [doc |-> Doc2, size |-> Len(Doc2.text), content_hash |-> "h3"]

\* The states of the document folder: a file is added, removed or modified.
StoreStates == { <<File1>>, <<File1b>>, <<File2, File1>> }

\* The user changes the document folder.
StoreChanges ==
  /\ files' \in StoreStates \ {files}
  /\ poll' = [poll EXCEPT !.fresh = FALSE]
  /\ UNCHANGED <<session, store, api_key, clock, call, result, turn, dropbox_fingerprint>>

\* The first script run (lines 103-107): load_documents, then load_persistent_data.
PollInit ==
  /\ \E s \in {t \in StoredSessions : t.interview # <<>>} : InitWith(s)
  /\ api_key = TRUE
  /\ files \in StoreStates
  /\ \E dbx \in get_dropbox_client :
       IF ~dbx
       THEN data = NoData /\ dropbox_fingerprint = NULL /\ poll = PollIdle(FALSE)
       ELSE /\ \E documents \in scan_dropbox(files) : data = Snapshot(documents, clock)
            /\ dropbox_fingerprint \in get_dropbox_fingerprint(files)
            /\ poll = PollIdle(TRUE)

PollNext ==
  \/ StoreChanges
  \/ _poll_dropbox
  \/ load_documents_scan
  \/ load_documents_return
  \/ \E u \in UserMessages : SendToAi(u)
  \/ ModelFails

PollSpec == PollInit /\ [][PollNext]_vars

\* ------------------------------------------- the poller with the store in reach
\* A poll tick whose client and listing succeed: load_documents follows exactly
\* when the fingerprint of the folder differs from the last one observed.
PollTickOk ==
  /\ _poll_dropbox
  /\ poll'.pc = "load" <=> Fingerprint(files) # dropbox_fingerprint

\* load_documents gets its client and scan_dropbox lists and reads the folder.
ScanDone ==
  /\ load_documents_scan
  /\ poll'.pc = "scanned"
  /\ poll'.documents = Documents(files)

\* get_dropbox_fingerprint in load_documents lists the folder.
LoadDone ==
  /\ load_documents_return
  /\ dropbox_fingerprint' = Fingerprint(files)

\* The first script run found no client, or scanned and listed the folder.
LiveInit ==
  /\ PollInit
  /\ \/ data = NoData
     \/ /\ data = Snapshot(Documents(files), clock)
        /\ dropbox_fingerprint = Fingerprint(files)

\* The poller goes on up to the scan of load_documents.
PollerOk == PollTickOk \/ ScanDone

\* load_documents returns: the poller is at rest again (LoadDone is the only
\* step of LiveNext that does this).
LoadEnds == poll.pc = "scanned" /\ poll' = PollIdle(TRUE)

LiveNext ==
  \/ StoreChanges
  \/ PollTickOk
  \/ ScanDone
  \/ LoadDone

\* The fragment _poll_dropbox runs every 30 seconds, and a call it makes returns.
LiveSpec ==
  LiveInit /\ [][LiveNext]_vars /\ WF_vars(PollerOk) /\ WF_poll(LoadEnds)

\* ------------------------------------- load_documents on texts of all shapes
MaxLines == 3
MaxPairLines == 2

MariaLine == "1. Maria (12/03/1975), coniugata, 2 figli;"

\* The lines the documents are made of: the two section markers, a third marker
\* word, heir lines, an asset line and the empty line.
ParseLines ==
  { "Eredi:",
    MariaLine,
    "2) Luca (12/03/1975) vedovo",
    "Immobili:",
    "Apartment in Rome",
    "Beni:",
    "3 case a Roma;",
    "" }
PairLines ==
  { "Eredi:", MariaLine, "Immobili:", "Apartment in Rome" }

\* The document of the end-to-end scenario.
ScenarioText == "Eredi:\n" \o MariaLine \o "\nImmobili:\nApartment in Rome"

\* Heir lines put together from an enumerator, a name, a date of birth, a marital
\* status, a number of children and a closing semicolon, each present, absent or
\* malformed.
HeirLineCases ==
  [enum : {"1. ", "2) ", "3 ", "4.) ", "5"},
   name : {"Maria", ""},
   dob : {" (12/03/1975)", " (12/3/1975)", ""},
   status : {", coniugata", ", Stato Libero", ", vedovo", ""},
   children : {", 2 figli", ", figli", ""},
   tail : {";", ""}]
LineOf(c) == c.enum \o c.name \o c.dob \o c.status \o c.children \o c.tail

\* '\n'.join(lines)
RECURSIVE JoinLines(_)
JoinLines(lines) ==
  IF Len(lines) = 1 THEN lines[1]
  ELSE JoinLines(SubSeq(lines, 1, Len(lines) - 1)) \o "\n" \o lines[Len(lines)]

\* The texts of 1..n lines over an alphabet of lines.
TextsOf(alphabet, n) ==
  { JoinLines(ls) : ls \in UNION { [1..k -> alphabet] : k \in 1..n } }

DocAt(path, text) == [path |-> path, folder |-> "root", filename |-> path, text |-> text]
StoreFile(doc) == [doc |-> doc, size |-> Len(doc.text), content_hash |-> doc.text]

\* One document of up to MaxLines lines, the scenario document, or two documents
\* of up to MaxPairLines lines.
ParseInputs ==
  { <<DocAt("a.txt", t)>> : t \in TextsOf(ParseLines, MaxLines) \cup {ScenarioText} }
  \cup { <<DocAt("a.txt", t), DocAt("b.txt", u)>> :
           t \in TextsOf(PairLines, MaxPairLines), u \in TextsOf(PairLines, MaxPairLines) }

\* The first script run, at the point where load_documents has scanned the folder.
ParseInit ==
  /\ \E s \in {t \in StoredSessions : t.interview = <<>>} : InitWith(s)
  /\ api_key = TRUE
  /\ data = NoData
  /\ dropbox_fingerprint = NULL
  /\ \E docs \in ParseInputs :
       /\ files = [i \in 1..Len(docs) |-> StoreFile(docs[i])]
       /\ poll = [pc |-> "scanned", documents |-> Documents(files), fresh |-> FALSE]

ParseNext == load_documents_return

ParseSpec == ParseInit /\ [][ParseNext]_vars

\* The same first run on a document that is a heir section of one heir line.
HeirLineInit ==
  /\ \E s \in {t \in StoredSessions : t.interview = <<>>} : InitWith(s)
  /\ api_key = TRUE
  /\ data = NoData
  /\ dropbox_fingerprint = NULL
  /\ \E c \in HeirLineCases :
       /\ files = <<StoreFile(DocAt("a.txt", "Eredi:\n" \o LineOf(c)))>>
       /\ poll = [pc |-> "scanned", documents |-> Documents(files), fresh |-> FALSE]

HeirLineNext == load_documents_return

HeirLineSpec == HeirLineInit /\ [][HeirLineNext]_vars

\* ------------------------------------------- handle_tool_call on its own
MaxIndex == 5

UpdateReportInputs ==
  { [section_id |-> s, title |-> "T1", content |-> "C1"] : s \in SectionIds }
  \cup { [section_id |-> s, title |-> "T2", content |-> "C2"] : s \in SectionIds }
  \cup { [section_id |-> "a", title |-> "T1"] }

ReportCalls ==
  { [name |-> "update_report", input |-> p] : p \in UpdateReportInputs }
  \cup { [name |-> "delete_report_section", input |-> p] :
           p \in { [section_id |-> s] : s \in SectionIds } \cup { <<>> } }

\* Integers in and out of range, a float, a string, and the key left out.
IndexValues ==
  { JInt(i) : i \in (0 - 1)..MaxIndex } \cup { JFloat(0), JFloat(MaxIndex), JStr(0) }

NoteCalls ==
  { [name |-> "add_note", input |-> p] :
      p \in { [note |-> n] : n \in NoteTexts } \cup { <<>> } }
  \cup { [name |-> "remove_note", input |-> p] :
           p \in { [note_index |-> i] : i \in IndexValues } \cup { <<>> } }
  \cup { [name |-> "search", input |-> [query |-> "x"]] }

InterviewCalls ==
  { [name |-> "save_interview_entry", input |-> p] :
      p \in [topic : Topics, question : Questions, answer : Answers]
            \cup { [topic |-> "legal", question |-> "q1"] } }
  \cup { [name |-> "update_interview_entry", input |-> p] :
           p \in { [entry_index |-> i, answer |-> "y"] : i \in IndexValues }
                 \cup { [entry_index |-> JInt(0)], [entry_index |-> JInt(MaxIndex)],
                        [answer |-> "y"] } }

\* One invocation handle_tool_call(c.name, c.input) outside a turn.
Dispatch(c) ==
  /\ pc = "idle"
  /\ handle_tool_call(c.name, c.input)
  /\ Len(reports') <= MaxReports
  /\ Len(notes') <= MaxNotes
  /\ Len(interview') <= MaxInterview
  /\ UNCHANGED <<messages, data, api_key, clock, turn, scanner>>

ToolInit ==
  /\ \E s \in StoredSessions : InitWith(s)
  /\ data \in Snapshots
  /\ api_key = TRUE
  /\ files = <<File1>>
  /\ dropbox_fingerprint = Fingerprint(files)
  /\ poll = PollIdle(TRUE)

\* The two tools that take an index, with what fills the two lists.
IndexCalls ==
  { [name |-> "add_note", input |-> [note |-> "n1"]],
    [name |-> "save_interview_entry",
     input |-> [topic |-> "legal", question |-> "q1", answer |-> "x"]] }
  \cup { [name |-> "remove_note", input |-> [note_index |-> i]] : i \in IndexValues }
  \cup { [name |-> "update_interview_entry", input |-> [entry_index |-> i, answer |-> "y"]] :
           i \in IndexValues }

ReportNext == Tick \/ \E c \in ReportCalls : Dispatch(c)
NoteNext == Tick \/ \E c \in NoteCalls : Dispatch(c)
InterviewNext == Tick \/ \E c \in InterviewCalls : Dispatch(c)
IndexNext == \E c \in IndexCalls : Dispatch(c)

ReportSpec == ToolInit /\ [][ReportNext]_vars
NoteSpec == ToolInit /\ [][NoteNext]_vars
InterviewSpec == ToolInit /\ [][InterviewNext]_vars
IndexSpec == ToolInit /\ [][IndexNext]_vars

\* Calls on the two positional lists: appends, and indices at the first and the
\* second position, as an integer and as a float, and an update without answer.
ListCalls ==
  { [name |-> "add_note", input |-> [note |-> "n1"]],
    [name |-> "save_interview_entry",
     input |-> [topic |-> "legal", question |-> "q1", answer |-> "x"]],
    [name |-> "update_interview_entry", input |-> [entry_index |-> JInt(0)]] }
  \cup { [name |-> "remove_note", input |-> [note_index |-> i]] :
           i \in {JInt(0), JInt(1), JFloat(0)} }
  \cup { [name |-> "update_interview_entry", input |-> [entry_index |-> i, answer |-> "y"]] :
           i \in {JInt(0), JInt(1)} }

\* Every blob of the store is the collection in memory: no save was skipped.
InSync ==
  store = Blobs([reports |-> reports, notes |-> notes, interview |-> interview,
                 messages |-> messages])

\* The calls on the two positional lists, with the clock moving between them and
\* the store within reach at every save.
ListNext == Tick \/ \E c \in ListCalls : (Dispatch(c) /\ InSync')
ListSpec == ToolInit /\ [][ListNext]_vars

\* One call of each tool and of a tool the dispatcher does not know.
FrameCalls ==
  { [name |-> "update_report",
     input |-> [section_id |-> "a", title |-> "T1", content |-> "C1"]],
    [name |-> "delete_report_section", input |-> [section_id |-> "a"]],
    [name |-> "add_note", input |-> [note |-> "n1"]],
    [name |-> "remove_note", input |-> [note_index |-> JInt(0)]],
    [name |-> "save_interview_entry",
     input |-> [topic |-> "legal", question |-> "q1", answer |-> "y"]],
    [name |-> "update_interview_entry", input |-> [entry_index |-> JInt(0), answer |-> "y"]],
    [name |-> "search", input |-> [query |-> "x"]] }

\* The user edits the one file of the document folder, or puts it back.
FileEdited ==
  /\ files \in {<<File1>>, <<File1b>>}
  /\ files' \in {<<File1>>, <<File1b>>} \ {files}
  /\ poll' = [poll EXCEPT !.fresh = FALSE]
  /\ UNCHANGED <<session, store, api_key, clock, call, result, turn, dropbox_fingerprint>>

\* A session loaded from the store with a snapshot of the folder, the poller idle.
FrameInit ==
  /\ \E s \in {t \in StoredSessions : t.interview # <<>>} : InitWith(s)
  /\ data \in Snapshots
  /\ api_key = TRUE
  /\ files = <<File1>>
  /\ dropbox_fingerprint = Fingerprint(files)
  /\ poll = PollIdle(TRUE)

\* The save of a call of `name`, if there was one, has reached the store.
SaveReached(name) ==
  store'[FileOf(name)] = IF name \in ReportTools THEN reports'
                         ELSE IF name \in NoteTools THEN notes'
                         ELSE interview'

\* The tool calls, with the store within reach at every save, beside the poller
\* and the edits of the document folder.
FrameNext ==
  \/ FileEdited
  \/ _poll_dropbox
  \/ load_documents_scan
  \/ load_documents_return
  \/ \E c \in FrameCalls : (Dispatch(c) /\ SaveReached(c.name))

FrameSpec == FrameInit /\ [][FrameNext]_vars

\* ================================================================ claims
\* A step that is one handle_tool_call outside a turn (Dispatch), as against Tick.
DirectCall == pc = "idle" /\ pc' = "idle" /\ clock' = clock /\ call' # NoCall

UniqueIds(rs) == \A i, j \in 1..Len(rs) : i # j => rs[i].id # rs[j].id
InRange(idx, s) == 0 <= idx.v /\ idx.v < Len(s)
CollectionOf(name) ==
  IF name \in ReportTools THEN reports
  ELSE IF name \in NoteTools THEN notes
  ELSE interview

\* C1: no two report sections share an id, whatever calls were made; after an
\* update_report that returned, exactly one section has the id of the call and it
\* carries the title and the content of that call.
C1_UniqueSectionIds ==
  /\ UniqueIds(reports)
  /\ (call.name = "update_report" /\ result.kind = "return") =>
       \E i \in 1..Len(reports) :
         /\ reports[i].id = call.input.section_id
         /\ reports[i].title = call.input.title
         /\ reports[i].content = call.input.content
         /\ \A j \in 1..Len(reports) : reports[j].id = call.input.section_id => j = i

\* The second update_report of id "a": the section made earlier now has the new title.
C1_Witness ==
  /\ call.name = "update_report"
  /\ result = Returned("Updated report section 'T2'")
  /\ call.input.section_id = "a"
  /\ Len(reports) = 2
  /\ \E i \in 1..Len(reports) :
       /\ reports[i].id = "a"
       /\ reports[i].title = "T2"
       /\ reports[i].content = "C2"
       /\ reports[i].created_at < reports[i].updated_at

\* C2: when a tool call has returned, the stored blob of the collection the tool
\* works on equals the collection in memory.
C2_SavedBeforeReturn ==
  (call # NoCall /\ result.kind = "return") =>
    store[FileOf(call.name)] = CollectionOf(call.name)

\* C3: handle_tool_call never ends with an exception, and a tool name it does not
\* know gets the result "Unknown tool".
C3_NeverRaises ==
  /\ result.kind # "raise"
  /\ (call # NoCall /\ call.name \notin ReportTools \cup NoteTools \cup InterviewTools) =>
       result = Returned("Unknown tool")

\* C4: remove_note and update_interview_entry change their list only for an index
\* with 0 <= index < len(list); for any other index the list and the store are
\* left as they are, and a number out of that range gets the "Invalid ... index"
\* result.
C4_IndexBounds ==
  [][ DirectCall =>
        /\ call'.name = "remove_note" =>
             LET idx == call'.input.note_index IN
             /\ notes' # notes => (IsNumber(idx) /\ InRange(idx, notes))
             /\ ~(IsNumber(idx) /\ InRange(idx, notes)) =>
                  (notes' = notes /\ store' = store)
             /\ (IsNumber(idx) /\ ~InRange(idx, notes)) =>
                  result' = Returned("Invalid note index " \o Fmt(idx))
        /\ call'.name = "update_interview_entry" =>
             LET idx == call'.input.entry_index IN
             /\ interview' # interview => (IsNumber(idx) /\ InRange(idx, interview))
             /\ ~(IsNumber(idx) /\ InRange(idx, interview)) =>
                  (interview' = interview /\ store' = store)
             /\ (IsNumber(idx) /\ ~InRange(idx, interview)) =>
                  result' = Returned("Invalid entry index " \o Fmt(idx))
    ]_vars

\* remove_note with index MaxIndex on a full list of MaxNotes notes.
C4_Witness ==
  /\ call.name = "remove_note"
  /\ call.input.note_index = JInt(MaxIndex)
  /\ Len(notes) = MaxNotes
  /\ MaxIndex >= MaxNotes
  /\ result = Returned("Invalid note index " \o ToString(MaxIndex))

\* C5: delete_report_section with an id no section has leaves the sections as
\* they are and answers "not found"; with an id some section has it removes every
\* section of that id, keeps the others in their order and answers "Deleted".
C5_DeleteSection ==
  [][ (DirectCall /\ call'.name = "delete_report_section" /\ result'.kind = "return") =>
        LET sid == call'.input.section_id IN
        IF \E i \in 1..Len(reports) : reports[i].id = sid
        THEN /\ \A i \in 1..Len(reports') : reports'[i].id # sid
             /\ reports' = SelectSeq(reports, LAMBDA s : s.id # sid)
             /\ result' = Returned("Deleted report section '" \o sid \o "'")
        ELSE /\ reports' = reports
             /\ result' = Returned("Section '" \o sid \o "' not found")
    ]_vars

\* Section "b" was deleted from a collection of two, and "a" is what is left.
C5_Witness ==
  /\ call.name = "delete_report_section"
  /\ result = Returned("Deleted report section 'b'")
  /\ Len(reports) = 1
  /\ reports[1].id = "a"

\* C6: a delete_report_section of the id that the update_report before it created
\* gives back the collection as it was before the two calls, and the stored
\* reports blob is that collection (no section when it was empty).
C6_UpdateThenDelete ==
  [][ ( /\ DirectCall
        /\ call.name = "update_report"
        /\ result.kind = "return"
        /\ result.value = "Created report section '" \o call.input.title \o "'"
        /\ call'.name = "delete_report_section"
        /\ call'.input = [section_id |-> call.input.section_id] )
      => /\ reports' = SubSeq(reports, 1, Len(reports) - 1)
         /\ store'["reports.json"] = reports'
    ]_vars

\* A step of send_to_ai that is one handle_tool_call: the for loop at a tool_use block.
TurnCall ==
  /\ pc = "tool_use"
  /\ blk <= Len(response.content)
  /\ IsToolUse(response.content[blk])

\* C7: in a tool-use round every tool_use block of the response is dispatched, one
\* after the other in the order of the blocks, and the round is left by sending a
\* user turn that holds one tool_result per tool_use block, in that order and with
\* the id of its block.
C7_EveryBlockDispatched ==
  [][ /\ TurnCall =>
           call' = [name |-> response.content[blk].name,
                    input |-> response.content[blk].input]
      /\ (pc = "tool_use" /\ pc' # "tool_use") =>
           /\ pc' = "create"
           /\ LET sent == api_messages'[Len(api_messages')]
                  uses == ToolUses(response.content) IN
              /\ sent.role = "user"
              /\ Len(sent.content) = Len(uses)
              /\ \A i \in 1..Len(uses) :
                   /\ sent.content[i].type = "tool_result"
                   /\ sent.content[i].tool_use_id = uses[i].id
    ]_vars

Texts(content) == SelectSeq(content, LAMBDA b : b.type = "text")
RECURSIVE Joined(_)
Joined(bs) == IF bs = <<>> THEN "" ELSE Head(bs).text \o Joined(Tail(bs))

\* C8: send_to_ai returns the text blocks of the response that ended the loop,
\* joined in order, or the default reply when it has none; that reply is appended
\* to the chat history, and the stored chat history is the one in memory when the
\* function returns.
C8_FinalReply ==
  [][ (pc = "reply" /\ pc' = "idle") =>
        LET text == IF Texts(response.content) = <<>> THEN DEFAULT_REPLY
                    ELSE Joined(Texts(response.content)) IN
        /\ reply' = Returned(text)
        /\ messages' = Append(messages, [role |-> "assistant", content |-> text])
        /\ store'["chat_history.json"] = messages'
    ]_vars

\* C9: every turn ends: a request to the model leads to send_to_ai being left.
C9_TurnTerminates == (pc = "create") ~> (pc = "idle")

Occurs(s, x) == \E i \in 1..Len(s) : s[i] = x
Pos(s, x) == CHOOSE i \in 1..Len(s) : s[i] = x /\ \A j \in 1..(i - 1) : s[j] # x
SectionHeaders ==
  <<InterviewHeader, NotesHeader, HeirsHeader, AssetsHeader, RawHeader, ReportsHeader>>
InterviewLines(iv) ==
  { "  [" \o ToString(i - 1) \o "] Q: " \o iv[i].question : i \in 1..Len(iv) }
  \cup { "      A: " \o iv[i].answer : i \in 1..Len(iv) }
NoteLines(ns) ==
  { "  " \o ToString(i - 1) \o ". " \o ns[i].note \o " (added " \o ToString(ns[i].added_at) \o ")" :
      i \in 1..Len(ns) }
DocumentLines(d) == { d.documents[i].text : i \in 1..Len(d.documents) }

\* C10: the context starts with the instructions, and the sections that follow
\* come in the order interview, notes, heirs, assets, raw documents, reports, each
\* at most once; every interview line comes before the notes section, every note
\* line between the notes header and the raw document header, every document
\* text after it; building the context changes no collection and no snapshot.
C10_ContextOrder ==
  [][ (pc = "idle" /\ pc' = "create") =>
        LET c == context' IN
        /\ UNCHANGED <<reports, notes, interview, data, store>>
        /\ SubSeq(c, 1, Len(INSTRUCTIONS)) = INSTRUCTIONS
        /\ \A a \in 1..Len(SectionHeaders) :
             Cardinality({i \in 1..Len(c) : c[i] = SectionHeaders[a]}) <= 1
        /\ \A a, b \in 1..Len(SectionHeaders) :
             (a < b /\ Occurs(c, SectionHeaders[a]) /\ Occurs(c, SectionHeaders[b])) =>
               /\ Len(INSTRUCTIONS) < Pos(c, SectionHeaders[a])
               /\ Pos(c, SectionHeaders[a]) < Pos(c, SectionHeaders[b])
        /\ Occurs(c, InterviewHeader) <=> interview # <<>>
        /\ Occurs(c, NotesHeader) <=> notes # <<>>
        /\ Occurs(c, HeirsHeader) <=> data.heirs # <<>>
        /\ Occurs(c, AssetsHeader) <=> data.assets # <<>>
        /\ Occurs(c, RawHeader)
        /\ Occurs(c, ReportsHeader) <=> reports # <<>>
        /\ \A x \in InterviewLines(interview) \cup NoteLines(notes) \cup DocumentLines(data) :
             Occurs(c, x)
        /\ \A p \in 1..Len(c) :
             /\ c[p] \in InterviewLines(interview) =>
                  /\ Pos(c, InterviewHeader) < p
                  /\ p < Pos(c, RawHeader)
                  /\ notes # <<>> => p < Pos(c, NotesHeader)
             /\ c[p] \in NoteLines(notes) =>
                  /\ Pos(c, NotesHeader) < p
                  /\ p < Pos(c, RawHeader)
             /\ c[p] \in DocumentLines(data) => Pos(c, RawHeader) < p
    ]_vars

\* A request is out whose context was built from an interview entry, a note and a
\* document, and holds the three sections in that order.
C10_Witness ==
  /\ pc = "create"
  /\ api_messages = messages
  /\ interview # <<>> /\ notes # <<>> /\ data.documents # <<>>
  /\ Occurs(context, InterviewHeader)
  /\ Occurs(context, NotesHeader)
  /\ Pos(context, InterviewHeader) < Pos(context, NotesHeader)
  /\ Pos(context, NotesHeader) < Pos(context, RawHeader)
  /\ \E p \in 1..Len(context) :
       context[p] = data.documents[1].text /\ Pos(context, RawHeader) < p

\* The lines of a context that show an interview entry, and the tag they carry.
IsEntryLine(line) == StartsWith(line, "  [")
EntryTag(line) == ToInt(SubSeq(line, 4, 3 + Run(SubSeq(line, 4, Len(line)), Digits)))
\* The lines of the notes section, from its header to the empty line that ends it.
NoteLinePositions(c) ==
  IF ~Occurs(c, NotesHeader) THEN {}
  ELSE { p \in 1..Len(c) :
           /\ Pos(c, NotesHeader) < p
           /\ \A q \in (Pos(c, NotesHeader) + 1)..p : c[q] # "" }
NoteTag(line) == ToInt(SubSeq(line, 3, 2 + Run(SubSeq(line, 3, Len(line)), Digits)))

\* C11: in the context built from the collections, the tag of an interview line
\* is the 0-based index of the entry it shows in the whole interview list, every
\* entry has one line, and update_interview_entry with that tag changes that
\* entry and no other; the tag of a note line is the 0-based index of the note
\* it shows, every note has one line, and remove_note with that tag removes that
\* note and no other.
C11_IndexTags ==
  LET c == build_context(data, interview, notes, reports)
      entries == { p \in 1..Len(c) : IsEntryLine(c[p]) }
  IN
  /\ Cardinality(entries) = Len(interview)
  /\ \A i \in 1..Len(interview) : \E p \in entries : EntryTag(c[p]) = i - 1
  /\ \A p \in entries :
       LET t == EntryTag(c[p])
           r == update_interview_entry(interview,
                                       [entry_index |-> JInt(t), answer |-> "z"], clock)
       IN /\ t < Len(interview)
          /\ c[p] = "  [" \o ToString(t) \o "] Q: " \o interview[t + 1].question
          /\ c[p + 1] = "      A: " \o interview[t + 1].answer
          /\ r.result = Returned("Updated interview entry " \o ToString(t))
          /\ r.coll = [interview EXCEPT ![t + 1].answer = "z", ![t + 1].answered_at = clock]
  /\ Cardinality(NoteLinePositions(c)) = Len(notes)
  /\ \A i \in 1..Len(notes) : \E p \in NoteLinePositions(c) : NoteTag(c[p]) = i - 1
  /\ \A p \in NoteLinePositions(c) :
       LET t == NoteTag(c[p])
           r == remove_note(notes, [note_index |-> JInt(t)])
       IN /\ t < Len(notes)
          /\ c[p] = "  " \o ToString(t) \o ". " \o notes[t + 1].note
                      \o " (added " \o ToString(notes[t + 1].added_at) \o ")"
          /\ r.result = Returned("Removed note: '" \o notes[t + 1].note \o "'")
          /\ r.coll = Pop(notes, t + 1)

\* Two entries of two topics with different answers, the second one the first of
\* its topic group, and two notes.
C11_Witness ==
  /\ Len(interview) = 2
  /\ interview[1].topic # interview[2].topic
  /\ interview[1].answer # interview[2].answer
  /\ Len(notes) = 2
  /\ notes[1].note # notes[2].note
  /\ Occurs(build_context(data, interview, notes, reports),
            "  [1] Q: " \o interview[2].question)

\* The snapshots a scan of some state of the folder returns.
WholeSnapshots ==
  { Snapshot(documents, now) :
      documents \in UNION { scan_dropbox(fs) : fs \in StoreStates }, now \in 0..MaxClock }

\* C12: a poll tick by itself changes neither the snapshot nor the last observed
\* fingerprint, and it goes on to load_documents only when the fingerprint of the
\* folder differs from the last observed one; the load that follows ends with
\* the snapshot replaced by the snapshot of the scanned documents and with a
\* fingerprint recorded as last observed.
C12_PollTick ==
  [][ /\ (poll.pc = "idle" /\ files' = files) =>
           /\ data' = data
           /\ dropbox_fingerprint' = dropbox_fingerprint
           /\ poll'.pc = "load" => Fingerprint(files) # dropbox_fingerprint
      /\ (poll.pc # "idle" /\ poll'.pc = "idle") =>
           /\ poll.pc = "scanned"
           /\ data' = Snapshot(poll.documents, clock)
           /\ dropbox_fingerprint' \in { Fingerprint(fs) : fs \in StoreStates }
    ]_vars

\* path, size and content hash of every file of a listing.
Triples(fs) ==
  { <<fs[i].doc.path, fs[i].size, fs[i].content_hash>> : i \in 1..Len(fs) }

\* C13: two states of the folder have the same fingerprint exactly when they have
\* the same (path, size, content_hash) triples; and a poll tick made while no
\* file has changed since the latest scan returned does not go on to
\* load_documents.
C13_Fingerprint ==
  [][ /\ \A a, b \in StoreStates :
           (Fingerprint(a) = Fingerprint(b)) <=> (Triples(a) = Triples(b))
      /\ (poll.pc = "idle" /\ poll.fresh) => poll'.pc = "idle"
    ]_vars

\* C14: once a snapshot is installed, every later value of the snapshot is again
\* a snapshot (never None), and one made as a whole from one list of documents.
C14_SnapshotKept ==
  [][ data # NoData =>
        /\ data' # NoData
        /\ data'.heirs = parse_heirs(data'.documents)
        /\ data'.assets = parse_assets(data'.documents)
    ]_vars

\* C15: the context of a turn is the context of one whole snapshot, whatever
\* _poll_dropbox does before, during and after the turn.
C15_OneSnapshot ==
  pc = "create" =>
    \E s \in WholeSnapshots : context = build_context(s, interview, notes, reports)

\* A turn is waiting for the model while _poll_dropbox has scanned documents that
\* differ from those of the snapshot the context was built from.
C15_Witness ==
  /\ pc = "create"
  /\ poll.pc = "scanned"
  /\ data # NoData
  /\ data.heirs # <<>>
  /\ poll.documents # data.documents
  /\ context = build_context(data, interview, notes, reports)

\* The flag in_heirs / in_assets when the k-th line of a document is reached.
InHeirsAt(doc, k) == HeirScan(SubSeq(Split(doc.text), 1, k - 1), FALSE, doc.path).in_heirs
InAssetsAt(doc, k) == AssetScan(SubSeq(Split(doc.text), 1, k - 1), FALSE, doc.path).in_assets

IsHeirMarker(line) == Contains(Lower(line), "eredi") \/ Contains(Lower(line), "heirs")
IsAssetMarker(line) == \E kw \in ASSET_KEYWORDS : Contains(Lower(line), kw)
StartsWithDigit(line) == Strip(line) # "" /\ Head(Strip(line)) \in Digits

\* The lines of a document that stand in the heir section and start with a digit.
HeirLinesOf(doc) ==
  { k \in 1..Len(Split(doc.text)) :
      /\ InHeirsAt(doc, k)
      /\ StartsWithDigit(Split(doc.text)[k])
      /\ ~IsHeirMarker(Split(doc.text)[k]) }

RECURSIVE HeirLineCount(_)
HeirLineCount(documents) ==
  IF documents = <<>> THEN 0
  ELSE Cardinality(HeirLinesOf(Head(documents))) + HeirLineCount(Tail(documents))

\* C17: the documents are parsed independently and the results concatenated in
\* document order: split anywhere into A ++ B, the heirs of the list are the heirs
\* of A followed by the heirs of B, and likewise the assets; and no record is
\* merged away, every heir line of every document has a record of its own.
C17_Concatenation ==
  data # NoData =>
    LET docs == data.documents IN
    /\ \A k \in 0..Len(docs) :
         /\ data.heirs = parse_heirs(SubSeq(docs, 1, k))
                           \o parse_heirs(SubSeq(docs, k + 1, Len(docs)))
         /\ data.assets = parse_assets(SubSeq(docs, 1, k))
                            \o parse_assets(SubSeq(docs, k + 1, Len(docs)))
    /\ Len(data.heirs) = HeirLineCount(docs)

\* Two documents with the same heir line: the first ends inside its heir section,
\* the second has no heir marker before the line; only the first gives a record.
C17_Witness ==
  /\ data # NoData
  /\ Len(data.documents) = 2
  /\ data.documents[1].text = "Eredi:\n" \o MariaLine
  /\ data.documents[2].text = MariaLine \o "\nApartment in Rome"
  /\ Len(data.heirs) = 1
  /\ data.heirs[1].source_file = "a.txt"

\* C18: the document of the four lines 'Eredi:', '1. Maria (12/03/1975),
\* coniugata, 2 figli;', 'Immobili:', 'Apartment in Rome' parses to exactly one
\* heir (Maria, 12/03/1975, married, 2 children) and exactly one asset
\* ('Apartment in Rome'); and every heir record of every snapshot has the
\* normalized and the localized marital status both present or both absent.
C18_Scenario ==
  data # NoData =>
    /\ (Len(data.documents) = 1 /\ data.documents[1].text = ScenarioText) =>
         /\ Len(data.heirs) = 1
         /\ data.heirs[1].name = "Maria"
         /\ data.heirs[1].date_of_birth = "12/03/1975"
         /\ data.heirs[1].marital_status = "married"
         /\ data.heirs[1].num_children = 2
         /\ Len(data.assets) = 1
         /\ data.assets[1].description = "Apartment in Rome"
    /\ \A i \in 1..Len(data.heirs) :
         "marital_status" \in DOMAIN data.heirs[i]
           <=> "marital_status_it" \in DOMAIN data.heirs[i]

\* load_documents has parsed the four-line document.
C18_Witness ==
  /\ data # NoData
  /\ Len(data.documents) = 1
  /\ data.documents[1].text = ScenarioText
  /\ Len(data.heirs) = 1
  /\ data.heirs[1].marital_status_it = "coniugato/a"

\* The heirs parse_heirs has collected from a document when its k-th line is reached.
HeirsAt(doc, k) == HeirScan(SubSeq(Split(doc.text), 1, k - 1), FALSE, doc.path).heirs

\* What the heir-line parser gives for a line of the document at `path`.
Parsed(line, path) ==
  LET heir == parse_heir_line(Strip(line))
  IN IF heir = NoHeir THEN <<>> ELSE <<heir @@ [source_file |-> path]>>

\* C19: in every document parse_heirs is in the heir section after a line
\* containing 'eredi' or 'heirs'; in the section every line starting with a digit
\* goes to the heir-line parser; a line containing an asset-section marker keyword
\* (immobili, beni, properties, assets) leaves the section, and an empty line
\* leaves the state as it is.
C19_HeirSection ==
  data # NoData =>
    \A i \in 1..Len(data.documents) :
      LET doc == data.documents[i]
          lines == Split(doc.text)
      IN \A k \in 1..Len(lines) :
           /\ IsHeirMarker(lines[k]) => InHeirsAt(doc, k + 1)
           /\ (InHeirsAt(doc, k) /\ StartsWithDigit(lines[k]) /\ ~IsHeirMarker(lines[k])) =>
                /\ InHeirsAt(doc, k + 1)
                /\ HeirsAt(doc, k + 1) = HeirsAt(doc, k) \o Parsed(lines[k], doc.path)
           /\ (IsAssetMarker(lines[k]) /\ ~IsHeirMarker(lines[k]) /\ ~StartsWithDigit(lines[k])) =>
                ~InHeirsAt(doc, k + 1)
           /\ Strip(lines[k]) = "" => (InHeirsAt(doc, k + 1) <=> InHeirsAt(doc, k))

\* The assets parse_assets has collected from a document when its k-th line is reached.
AssetsAt(doc, k) == AssetScan(SubSeq(Split(doc.text), 1, k - 1), FALSE, doc.path).assets

\* The line with trailing semicolons trimmed.
Trimmed(line) == Strip(RStrip(Strip(line), {";"}))

\* The k-th line of the document has become exactly one asset record.
OneRecord(doc, k) ==
  LET before == AssetsAt(doc, k)
      after == AssetsAt(doc, k + 1)
  IN /\ Len(after) = Len(before) + 1
     /\ SubSeq(after, 1, Len(before)) = before
     /\ after[Len(after)].description = Trimmed(Split(doc.text)[k])
     /\ after[Len(after)].source_file = doc.path

\* C20 as stated: in every document parse_assets is in the asset section after a
\* line containing immobili, beni, properties or assets, never leaves it, and
\* every non-empty line met inside the section becomes exactly one asset record
\* whose description is the line with trailing semicolons trimmed.
C20_EveryLine ==
  data # NoData =>
    \A i \in 1..Len(data.documents) :
      LET doc == data.documents[i]
          lines == Split(doc.text)
      IN /\ Len(data.documents) = 1 => data.assets = AssetsAt(doc, Len(lines) + 1)
         /\ \A k \in 1..Len(lines) :
              /\ IsAssetMarker(lines[k]) => InAssetsAt(doc, k + 1)
              /\ InAssetsAt(doc, k) => InAssetsAt(doc, k + 1)
              /\ (InAssetsAt(doc, k) /\ Strip(lines[k]) # "") => OneRecord(doc, k)

\* C20, amended: the same, for the non-empty lines inside the section that contain
\* none of the four marker keywords.
C20_AssetSection ==
  data # NoData =>
    \A i \in 1..Len(data.documents) :
      LET doc == data.documents[i]
          lines == Split(doc.text)
      IN /\ Len(data.documents) = 1 => data.assets = AssetsAt(doc, Len(lines) + 1)
         /\ \A k \in 1..Len(lines) :
              /\ IsAssetMarker(lines[k]) => InAssetsAt(doc, k + 1)
              /\ InAssetsAt(doc, k) => InAssetsAt(doc, k + 1)
              /\ (InAssetsAt(doc, k) /\ Strip(lines[k]) # "" /\ ~IsAssetMarker(lines[k])) =>
                   OneRecord(doc, k)

\* An asset section with a second marker line and a line ending in a semicolon:
\* the marker line gives no record, the line after it one.
C20_Witness ==
  /\ data # NoData
  /\ Len(data.documents) = 1
  /\ data.documents[1].text = "Immobili:\nBeni:\n3 case a Roma;"
  /\ Len(data.assets) = 1
  /\ data.assets[1].description = "3 case a Roma"

\* The enumerators re.sub(r'^\d+[\.\)\s]+', ...) strips: digits and a separator.
Enumerators == {"1. ", "2) ", "3 ", "4.) "}
StatusOf(s) ==
  CASE s = ", coniugata" -> [marital_status |-> "married", marital_status_it |-> "coniugato/a"]
    [] s = ", Stato Libero" ->
         [marital_status |-> "unmarried", marital_status_it |-> "stato libero"]
    [] s = ", vedovo" -> [marital_status |-> "widowed", marital_status_it |-> "vedovo/a"]
    [] OTHER -> <<>>

\* The record of a heir line, from the parts the line was put together from.
RecordOf(c) ==
  [name |-> c.name, raw_text |-> c.name \o c.dob \o c.status \o c.children,
   source_file |-> "a.txt"]
  @@ (IF c.dob = " (12/03/1975)" THEN [date_of_birth |-> "12/03/1975"] ELSE <<>>)
  @@ StatusOf(c.status)
  @@ (IF c.children = ", 2 figli" THEN [num_children |-> 2] ELSE <<>>)

\* C21: a line of a heir section that starts with a digit gives a heir record
\* if and only if, once its enumerator is stripped, it begins with a name; the
\* record has that name and the cleaned line as raw_text, and date_of_birth,
\* the marital status and num_children exactly when the line has a well-formed
\* date, a status word and a number of children; any other line gives no record
\* and load_documents still returns its snapshot.
C21_HeirLine ==
  (poll.pc = "idle" /\ Len(files) = 1) =>
    /\ data # NoData
    /\ \A c \in HeirLineCases :
         files[1].doc.text = "Eredi:\n" \o LineOf(c) =>
           IF c.enum \in Enumerators /\ c.name # ""
           THEN data.heirs = <<RecordOf(c)>>
           ELSE data.heirs = <<>>

\* A heir line with a malformed date and no number before 'figli' has been
\* parsed: a record with the name, the status and the cleaned line only.
C21_Witness ==
  /\ poll.pc = "idle"
  /\ data # NoData
  /\ files[1].doc.text = "Eredi:\n4.) Maria (12/3/1975), Stato Libero, figli;"
  /\ data.heirs = << [name |-> "Maria", marital_status |-> "unmarried",
                      marital_status_it |-> "stato libero",
                      raw_text |-> "Maria (12/3/1975), Stato Libero, figli",
                      source_file |-> "a.txt"] >>

\* C22: update_report with the id of an existing section leaves the list as long
\* as it was, every section at its position and with its id and created_at; the
\* section of that id takes the title and the content of the call and the time
\* of the call as updated_at, every other section is as before. With an id no
\* section has, the list after the call is the list before it with one new
\* section at the end.
C22_UpdateInPlace ==
  [][ (DirectCall /\ call'.name = "update_report" /\ result'.kind = "return") =>
        LET p == call'.input IN
        IF \E i \in 1..Len(reports) : reports[i].id = p.section_id
        THEN /\ Len(reports') = Len(reports)
             /\ \A i \in 1..Len(reports) :
                  IF reports[i].id = p.section_id
                  THEN reports'[i] = [id |-> p.section_id, title |-> p.title,
                                      content |-> p.content,
                                      created_at |-> reports[i].created_at,
                                      updated_at |-> clock]
                  ELSE reports'[i] = reports[i]
        ELSE /\ Len(reports') = Len(reports) + 1
             /\ SubSeq(reports', 1, Len(reports)) = reports
             /\ reports'[Len(reports')] = [id |-> p.section_id, title |-> p.title,
                                           content |-> p.content,
                                           created_at |-> clock, updated_at |-> clock]
    ]_vars

\* The first of two sections was updated later than it was created: it is still
\* the first, with the new title and content.
C22_Witness ==
  /\ call = [name |-> "update_report",
             input |-> [section_id |-> "b", title |-> "T1", content |-> "C1"]]
  /\ result = Returned("Updated report section 'T1'")
  /\ Len(reports) = 2
  /\ reports[1] = [id |-> "b", title |-> "T1", content |-> "C1",
                   created_at |-> 0, updated_at |-> 1]
  /\ reports[2].id = "a"

\* A call with an integer index inside the list it works on.
ValidIndex(idx, s) == IsIndex(idx) /\ InRange(idx, s)

\* C23: add_note and save_interview_entry, when they return, leave the list
\* before the call as a prefix and put one new element after it; remove_note with
\* an integer index inside the list returns and leaves the elements before the
\* index where they were and every later element one position lower, the list
\* one shorter; update_interview_entry with such an index and an answer returns
\* and leaves the list as it was except for the answer and answered_at of that
\* one entry.
C23_PositionalLists ==
  [][ DirectCall =>
        /\ (call'.name = "add_note" /\ result'.kind = "return") =>
             notes' = Append(notes, [note |-> call'.input.note, added_at |-> clock])
        /\ (call'.name = "save_interview_entry" /\ result'.kind = "return") =>
             interview' = Append(interview, [topic |-> call'.input.topic,
                                             question |-> call'.input.question,
                                             answer |-> call'.input.answer,
                                             answered_at |-> clock])
        /\ (call'.name = "remove_note" /\ Has(call'.input, {"note_index"})
              /\ ValidIndex(call'.input.note_index, notes)) =>
             LET i == call'.input.note_index.v + 1 IN
             /\ result'.kind = "return"
             /\ Len(notes') = Len(notes) - 1
             /\ \A j \in 1..Len(notes') :
                  notes'[j] = IF j < i THEN notes[j] ELSE notes[j + 1]
        /\ (call'.name = "update_interview_entry"
              /\ Has(call'.input, {"entry_index", "answer"})
              /\ ValidIndex(call'.input.entry_index, interview)) =>
             LET i == call'.input.entry_index.v + 1 IN
             /\ result'.kind = "return"
             /\ Len(interview') = Len(interview)
             /\ \A j \in 1..Len(interview) :
                  interview'[j] =
                    IF j = i THEN [topic |-> interview[j].topic,
                                   question |-> interview[j].question,
                                   answer |-> call'.input.answer,
                                   answered_at |-> clock]
                    ELSE interview[j]
    ]_vars

\* remove_note(0) on two notes: the note that was at index 1 is the one left.
C23_Witness ==
  /\ call = [name |-> "remove_note", input |-> [note_index |-> JInt(0)]]
  /\ result = Returned("Removed note: 'n2'")
  /\ notes = << [note |-> "n1", added_at |-> 1] >>

\* A step that is one handle_tool_call, and a step of _poll_dropbox (the poller
\* goes on to load_documents, or load_documents goes on or returns).
ToolStep == call' # NoCall /\ poll' = poll /\ files' = files
PollStep == poll'.pc # poll.pc

\* C24: a tool call changes no collection but the one of its tool (the report
\* tools the report sections, the note tools the notes, the interview tools the
\* interview entries, an unknown tool none) and no stored blob but that
\* collection's, and leaves the chat history, the document snapshot and the last
\* observed fingerprint as they are; a step of the poller changes none of the
\* chat history, the report sections, the notes and the interview entries, in
\* memory or in the store.
C24_OneCollection ==
  [][ /\ ToolStep =>
           /\ call'.name \notin ReportTools => reports' = reports
           /\ call'.name \notin NoteTools => notes' = notes
           /\ call'.name \notin InterviewTools => interview' = interview
           /\ \A f \in DOMAIN store : f # FileOf(call'.name) => store'[f] = store[f]
           /\ UNCHANGED <<messages, data, dropbox_fingerprint>>
      /\ PollStep => UNCHANGED <<reports, notes, interview, messages, store>>
    ]_vars

\* A note was added after the poller had replaced the snapshot: the snapshot is
\* the one of the edited file, the reports and the interview are those loaded.
C24_Witness ==
  /\ call.name = "add_note"
  /\ result.kind = "return"
  /\ Len(notes) = 2
  /\ data # NoData
  /\ data.documents = <<Doc1b>>
  /\ dropbox_fingerprint = Fingerprint(<<File1b>>)
  /\ Len(reports) = 1
  /\ interview[1].answer = "x"

\* The texts a reply can be: the joined text blocks of a response, or the default.
ReplyTexts == { FinalText(r.content) : r \in Responses }

\* C25: send_to_ai with a key appends the user message to the chat history; no
\* step between that and the return writes the chat history, however many
\* tool-use rounds there are; the return appends the reply as one assistant
\* message, so that the history is the one before the turn plus these two, both
\* plain text. Without a key send_to_ai returns None and leaves the chat history,
\* the collections and the store as they are.
C25_TwoMessages ==
  [][ /\ (pc = "idle" /\ reply' # reply /\ ~api_key) =>
           /\ reply' = Returned(NULL)
           /\ pc' = "idle"
           /\ UNCHANGED <<messages, reports, notes, interview, data, store>>
      /\ (pc = "idle" /\ pc' = "create") =>
           \E u \in UserMessages :
             messages' = Append(messages, [role |-> "user", content |-> u])
      /\ (pc \in {"create", "tool_use"}) => messages' = messages
      /\ (pc = "reply" /\ pc' = "idle") =>
           /\ reply'.kind = "return"
           /\ reply'.value \in ReplyTexts
           /\ Len(messages') = Len(messages) + 1
           /\ messages'[Len(messages')] = [role |-> "assistant", content |-> reply'.value]
           /\ messages'[Len(messages)].role = "user"
           /\ messages'[Len(messages)].content \in UserMessages
           /\ SubSeq(messages', 1, Len(messages') - 2)
                = SubSeq(api_messages, 1, Len(messages') - 2)
    ]_vars

\* A turn with a tool-use round has returned: the history holds the two messages
\* of the turn and the note of the round is in the notes.
C25_Witness ==
  /\ pc = "idle"
  /\ reply.kind = "return"
  /\ reply.value \in ReplyTexts
  /\ call.name = "add_note"
  /\ result.kind = "return"
  /\ Len(messages) = 2
  /\ messages[1].role = "user"
  /\ messages[2] = [role |-> "assistant", content |-> reply.value]

\* user, assistant, user, assistant, ... ending with an assistant message.
Alternates(msgs) ==
  /\ Len(msgs) % 2 = 0
  /\ \A i \in 1..Len(msgs) :
       msgs[i].role = IF i % 2 = 1 THEN "user" ELSE "assistant"

\* C26: whenever no turn is running, the chat history alternates user, assistant,
\* ... and ends with an assistant message, and the stored chat history is the
\* one in memory; also after a turn whose model request failed.
C26_Alternation ==
  pc = "idle" => (Alternates(messages) /\ store["chat_history.json"] = messages)

\* C27: no tool-use block of a response received during a turn is dropped: a
\* round is left with one result for each tool-use block of its response, and
\* the response on which the loop stops, whose text or the default reply the
\* turn returns, has no tool-use block that was not dispatched.
C27_NoCallDropped ==
  [][ /\ (pc = "tool_use" /\ pc' = "create") =>
           /\ Len(tool_results) = Len(ToolUses(response.content))
           /\ \A i \in 1..Len(tool_results) :
                tool_results[i].tool_use_id = ToolUses(response.content)[i].id
      /\ (pc = "reply" /\ pc' = "idle") => ToolUses(response.content) = <<>>
    ]_vars

\* C28: whenever a request is out to the model, the first of a turn or a re-send
\* after tool results, the context it carries is the one build_context gives for
\* the snapshot and the collections as they are at that moment.
C28_FreshContext ==
  pc = "create" => context = build_context(data, interview, notes, reports)

\* The snapshot is the one of a scan of the folder in state fs, and the last
\* observed fingerprint is that of fs.
UpToDate(fs) ==
  IF data = NoData THEN FALSE
  ELSE data = Snapshot(Documents(fs), data.scan_date)
       /\ dropbox_fingerprint = Fingerprint(fs)

\* C29: with the store in reach and the poller running, if the document folder
\* ends up in a state and stays in it, whenever its changes happened (during a
\* scan too), then from some moment on the snapshot is one scanned from that
\* state and the last observed fingerprint is the fingerprint of that state.
C29_NoChangeMissed ==
  \A fs \in StoreStates : <>[](files = fs) => <>[]UpToDate(fs)

====
